---- MODULE Spec2Model ----
(***************************************************************************)
(* Visitor Tracker API (src/api/main.py): a FastAPI service that keeps one *)
(* JSON document (visitor_data.json) in a GitHub repository through the    *)
(* contents API.  POST /api/track loads the document, appends a visit and  *)
(* saves it back (GET for the sha, then PUT); GET /api/stats loads it and  *)
(* reports figures.  Requests are served by independent handler instances; *)
(* a handler touches the shared store only in its remote requests, so each *)
(* remote request is one atomic step of the model.                         *)
(***************************************************************************)
EXTENDS Integers, Sequences, FiniteSets, TLC

(***************************************************************************)
(* Bounds of the model.                                                    *)
(***************************************************************************)
\* Number of HTTP requests (track or stats) the service receives in a run:
\* when it serves them one at a time, and when it serves them concurrently.
MaxSerialCalls == 3
MaxCalls == 2
\* The local clock runs over the days 0..MaxDay.
MaxDay == 1
\* Visits recorded before the service is (re)started.
MaxStored == 10

\* Handler instances that can be in flight at the same time.
Procs == {"p1", "p2"}
\* NoHeader is a request without a user-agent header.
NoHeader == "(none)"
\* The requests clients send: the address (request.client.host) and the
\* user-agent header.
Requests == { [ip |-> "a", header |-> "ua"], [ip |-> "b", header |-> NoHeader] }
Addrs == {rq.ip : rq \in Requests}

(***************************************************************************)
(* Python values.  A str is a sequence of pieces, so that startswith is a  *)
(* prefix test; a dict keeps its keys in insertion order.                  *)
(***************************************************************************)
\* F at the value of v: v is evaluated once, however often F uses it.
With(v, F(_)) == CHOOSE out \in {F(x) : x \in {v}} : TRUE

PyInt(n) == [ty |-> "int", n |-> n]
PyStr(s) == [ty |-> "str", s |-> s]
PyList(es) == [ty |-> "list", elems |-> es]
PyDict(ks, vs) == [ty |-> "dict", ks |-> ks, vs |-> vs]

IsDict(v) == v.ty = "dict"
IsList(v) == v.ty = "list"
IsInt(v) == v.ty = "int"
IsStr(v) == v.ty = "str"

\* A dict key or one-piece str: the str "visits" is K("visits").
K(name) == <<name>>

\* Index of key k in dict d, 0 when absent.
KeyIndex(d, k) ==
    IF \E i \in 1..Len(d.ks) : d.ks[i] = k
    THEN CHOOSE i \in 1..Len(d.ks) : d.ks[i] = k
    ELSE 0

HasKey(d, k) == IsDict(d) /\ KeyIndex(d, k) # 0

\* d[k] for a dict d that has key k.
Get(d, k) == d.vs[KeyIndex(d, k)]

\* d[k] = v: replaces the value of an existing key, else adds the key last.
Put(d, k, v) ==
    With(KeyIndex(d, k), LAMBDA at :
        IF at # 0
        THEN PyDict(d.ks, [d.vs EXCEPT ![at] = v])
        ELSE PyDict(Append(d.ks, k), Append(d.vs, v)))

\* x in lst, for a list.
InList(x, lst) == \E i \in 1..Len(lst.elems) : lst.elems[i] = x

\* s.startswith(p) for two str values.
StartsWith(s, p) ==
    /\ Len(p.s) <= Len(s.s)
    /\ SubSeq(s.s, 1, Len(p.s)) = p.s

(***************************************************************************)
(* JSON text, as a sequence of tokens.  json.dumps writes a value out,     *)
(* json.loads (and response.json()) parses a text and raises on anything   *)
(* that is not one complete JSON value.                                    *)
(***************************************************************************)
Tok(t) == [t |-> t]
NumTok(n) == [t |-> "num", n |-> n]
StrTok(s) == [t |-> "str", s |-> s]

RECURSIVE JsonDumps(_)
RECURSIVE DumpsElems(_, _)
RECURSIVE DumpsMembers(_, _)

DumpsElems(es, i) ==
    IF i > Len(es) THEN <<>>
    ELSE (IF i > 1 THEN <<Tok(",")>> ELSE <<>>)
         \o JsonDumps(es[i]) \o DumpsElems(es, i + 1)

DumpsMembers(d, i) ==
    IF i > Len(d.ks) THEN <<>>
    ELSE (IF i > 1 THEN <<Tok(",")>> ELSE <<>>)
         \o <<StrTok(d.ks[i]), Tok(":")>>
         \o JsonDumps(d.vs[i]) \o DumpsMembers(d, i + 1)

JsonDumps(value) ==
    With(value, LAMBDA v :
        CASE v.ty = "int"  -> <<NumTok(v.n)>>
          [] v.ty = "str"  -> <<StrTok(v.s)>>
          [] v.ty = "list" ->
                <<Tok("[")>> \o DumpsElems(v.elems, 1) \o <<Tok("]")>>
          [] v.ty = "dict" ->
                <<Tok("{")>> \o DumpsMembers(v, 1) \o <<Tok("}")>>)

\* A parse step's result: ok, the value, the index of the next token.
ParseFail == [ok |-> FALSE, val |-> PyInt(0), next |-> 0]
ParseOk(v, n) == [ok |-> TRUE, val |-> v, next |-> n]

TokIs(toks, i, t) == i <= Len(toks) /\ toks[i].t = t

RECURSIVE ParseValue(_, _)
RECURSIVE ParseElems(_, _, _)
RECURSIVE ParseMembers(_, _, _)

\* The elements of a list from token i on, after the elements acc.
ParseElems(toks, i, acc) ==
    With(ParseValue(toks, i), LAMBDA r :
        IF ~r.ok THEN ParseFail
        ELSE With(Append(acc, r.val), LAMBDA all :
            IF TokIs(toks, r.next, ",")
            THEN ParseElems(toks, r.next + 1, all)
            ELSE IF TokIs(toks, r.next, "]")
                 THEN ParseOk(PyList(all), r.next + 1)
            ELSE ParseFail))

\* The members of an object from token i on, after the members in acc.
ParseMembers(toks, i, acc) ==
    IF ~(TokIs(toks, i, "str") /\ TokIs(toks, i + 1, ":")) THEN ParseFail
    ELSE With(ParseValue(toks, i + 2), LAMBDA r :
        IF ~r.ok THEN ParseFail
        ELSE With(Put(acc, toks[i].s, r.val), LAMBDA all :
            IF TokIs(toks, r.next, ",")
            THEN ParseMembers(toks, r.next + 1, all)
            ELSE IF TokIs(toks, r.next, "}")
                 THEN ParseOk(all, r.next + 1)
            ELSE ParseFail))

ParseValue(toks, i) ==
    IF i > Len(toks) THEN ParseFail
    ELSE CASE toks[i].t = "num" -> ParseOk(PyInt(toks[i].n), i + 1)
           [] toks[i].t = "str" -> ParseOk(PyStr(toks[i].s), i + 1)
           [] toks[i].t = "[" ->
                IF TokIs(toks, i + 1, "]") THEN ParseOk(PyList(<<>>), i + 2)
                ELSE ParseElems(toks, i + 1, <<>>)
           [] toks[i].t = "{" ->
                IF TokIs(toks, i + 1, "}") THEN ParseOk(PyDict(<<>>, <<>>), i + 2)
                ELSE ParseMembers(toks, i + 1, PyDict(<<>>, <<>>))
           [] OTHER -> ParseFail

\* json.loads(text): [ok |-> FALSE] stands for the exception it raises.
\* (Base64 units are no JSON tokens.)
JsonLoads(text) ==
    With(text, LAMBDA toks :
        IF \E i \in 1..Len(toks) : "t" \notin DOMAIN toks[i]
        THEN [ok |-> FALSE, val |-> PyInt(0)]
        ELSE With(ParseValue(toks, 1), LAMBDA r :
                 IF r.ok /\ r.next = Len(toks) + 1
                 THEN [ok |-> TRUE, val |-> r.val]
                 ELSE [ok |-> FALSE, val |-> PyInt(0)]))

(***************************************************************************)
(* base64: the text of a file travels as a sequence of base64 units, one   *)
(* per token of the text.  b64decode raises on content that is not base64. *)
(***************************************************************************)
B64Encode(bytes) ==
    With(bytes, LAMBDA bs : [i \in 1..Len(bs) |-> [b64 |-> bs[i]]])

IsB64(s) == \A i \in 1..Len(s) : "b64" \in DOMAIN s[i]

\* base64.b64decode(s).decode(): [ok |-> FALSE] stands for the exception.
B64Decode(content) ==
    With(content, LAMBDA s :
        IF IsB64(s)
        THEN [ok |-> TRUE, val |-> [i \in 1..Len(s) |-> s[i].b64]]
        ELSE [ok |-> FALSE, val |-> <<>>])

\* Python's None, and the truth value of a value (as `if sha:` takes it).
PyNone == [ty |-> "none"]

Truthy(v) ==
    CASE v.ty = "none" -> FALSE
      [] v.ty = "int"  -> v.n # 0
      [] v.ty = "str"  -> Len(v.s) > 0
      [] v.ty = "list" -> Len(v.elems) > 0
      [] v.ty = "dict" -> Len(v.ks) > 0

\* len(v), for the values that have one.
HasLen(v) == v.ty \in {"str", "list", "dict"}
PyLen(v) ==
    CASE v.ty = "str"  -> Len(v.s)
      [] v.ty = "list" -> Len(v.elems)
      [] v.ty = "dict" -> Len(v.ks)

\* x in s, for two str values: x occurs in s as a substring.
InStr(x, s) ==
    \E i \in 0..Len(s.s) :
        /\ i + Len(x.s) <= Len(s.s)
        /\ SubSeq(s.s, i + 1, i + Len(x.s)) = x.s

(***************************************************************************)
(* The empty document the code falls back to (main.py 33-37, 53-57, 60-64).*)
(***************************************************************************)
EmptyDoc ==
    PyDict(<<K("total_visits"), K("unique_visitors"), K("visits")>>,
           <<PyInt(0), PyList(<<>>), PyList(<<>>)>>)

(***************************************************************************)
(* The remote store: the GitHub contents API for visitor_data.json.  A     *)
(* stored file is its text; its sha is the git blob hash of that text, so  *)
(* equal texts have equal shas.                                            *)
(***************************************************************************)
NoFile == [exists |-> FALSE, bytes |-> <<>>]
File(bytes) == [exists |-> TRUE, bytes |-> bytes]

Sha(bytes) == <<[blob |-> bytes]>>

\* An HTTP response, or the exception requests raised instead of one.
Raised == [raised |-> TRUE, status |-> 0, body |-> <<>>]
Response(status, body) == [raised |-> FALSE, status |-> status, body |-> body]

Message(text) == JsonDumps(PyDict(<<K("message")>>, <<PyStr(K(text))>>))

\* The store's answer to GET /repos/{repo}/contents/{path}.
StoreGet(f) ==
    IF f.exists
    THEN Response(200, JsonDumps(PyDict(<<K("sha"), K("content")>>,
                                        <<PyStr(Sha(f.bytes)),
                                          PyStr(B64Encode(f.bytes))>>)))
    ELSE Response(404, Message("Not Found"))

\* What a GET can come back with.  "ok": the store's answer.  "fail": a
\* non-success status.  "exc": requests raises.  "garbled": a 200 whose body
\* is not JSON.  "nokeys": a 200 whose JSON object has neither sha nor
\* content.  "badb64": a 200 whose content is not base64.  (A request that
\* is never answered is the action Hang.)
GetAnswers == {"ok", "fail", "exc", "garbled", "nokeys", "badb64"}

GetResponse(o, f) ==
    CASE o = "ok"      -> StoreGet(f)
      [] o = "fail"    -> Response(500, Message("Server Error"))
      [] o = "exc"     -> Raised
      [] o = "garbled" -> Response(200, <<Tok("junk")>>)
      [] o = "nokeys"  -> Response(200, JsonDumps(PyDict(<<>>, <<>>)))
      [] o = "badb64"  ->
            Response(200, JsonDumps(PyDict(<<K("sha"), K("content")>>,
                                           <<PyStr(Sha(f.bytes)),
                                             PyStr(<<[pad |-> "="]>>)>>)))

\* StorePut without the test of the sha: every write is accepted.
StorePutBlind(f, payload) ==
    With(B64Decode(Get(payload, K("content")).s), LAMBDA c :
        IF ~c.ok THEN [status |-> 422, file |-> f]
        ELSE [status |-> IF f.exists THEN 200 ELSE 201, file |-> File(c.val)])

\* The store's handling of PUT with `payload`: the status it answers and the
\* file it holds afterwards.  A new file needs no sha; an update must carry
\* the sha of the file as it is now.
StorePut(f, payload) ==
    With(B64Decode(Get(payload, K("content")).s), LAMBDA c :
        IF ~c.ok THEN [status |-> 422, file |-> f]
        ELSE IF ~f.exists
             THEN IF HasKey(payload, K("sha")) THEN [status |-> 422, file |-> f]
                  ELSE [status |-> 201, file |-> File(c.val)]
        ELSE IF ~HasKey(payload, K("sha")) THEN [status |-> 422, file |-> f]
        ELSE IF Get(payload, K("sha")) = PyStr(Sha(f.bytes))
             THEN [status |-> 200, file |-> File(c.val)]
        ELSE [status |-> 409, file |-> f])

\* GetGithubFile without the base64 decoding of line 49.
GetGithubFileNoDecode(tok, r) ==
    IF ~tok THEN EmptyDoc
    ELSE IF r.raised THEN EmptyDoc
    ELSE IF r.status = 200
    THEN With(JsonLoads(r.body), LAMBDA content :
         IF ~content.ok THEN EmptyDoc
         ELSE IF ~HasKey(content.val, K("content")) THEN EmptyDoc
         ELSE IF ~IsStr(Get(content.val, K("content"))) THEN EmptyDoc
         ELSE With(JsonLoads(Get(content.val, K("content")).s), LAMBDA parsed :
                   IF parsed.ok THEN parsed.val ELSE EmptyDoc))
    ELSE EmptyDoc

(***************************************************************************)
(* get_github_file (main.py 29-64), given the credential and the answer to *)
(* its GET.  Every exception inside the try ends in the empty document.    *)
(***************************************************************************)
GetGithubFile(tok, r) ==
    IF ~tok THEN EmptyDoc
    ELSE IF r.raised THEN EmptyDoc
    ELSE IF r.status = 200
    THEN With(JsonLoads(r.body), LAMBDA content :
         IF ~content.ok THEN EmptyDoc
         ELSE IF ~HasKey(content.val, K("content")) THEN EmptyDoc
         ELSE IF ~IsStr(Get(content.val, K("content"))) THEN EmptyDoc
         ELSE With(B64Decode(Get(content.val, K("content")).s), LAMBDA text :
              IF ~text.ok THEN EmptyDoc
              ELSE With(JsonLoads(text.val), LAMBDA parsed :
                   IF parsed.ok THEN parsed.val ELSE EmptyDoc)))
    ELSE EmptyDoc

(***************************************************************************)
(* save_to_github (main.py 66-99) in its two remote steps.                 *)
(***************************************************************************)
\* Lines 79-80: the sha from the answer to the GET.  raised: an exception
\* that ends save with False.
FetchSha(r) ==
    IF r.raised THEN [raised |-> TRUE, sha |-> PyNone]
    ELSE IF r.status # 200 THEN [raised |-> FALSE, sha |-> PyNone]
    ELSE With(JsonLoads(r.body), LAMBDA j :
         IF ~j.ok \/ ~IsDict(j.val) THEN [raised |-> TRUE, sha |-> PyNone]
         ELSE IF HasKey(j.val, K("sha"))
              THEN [raised |-> FALSE, sha |-> Get(j.val, K("sha"))]
         ELSE [raised |-> FALSE, sha |-> PyNone])

\* strftime('%Y-%m-%d %H:%M:%S') and isoformat() of the local clock.
Dates == <<"2025-01-01", "2025-01-02", "2025-01-03", "2025-01-04">>
DateName(day) == Dates[day + 1]
StrfTime(day) == <<DateName(day), " ", "12:00:00">>
\* isoformat() has microseconds: the clock has moved on between two visits,
\* `tick` is the reading's place in their order.
IsoFormat(day, tick) == <<DateName(day), "T", "12:00:00." \o ToString(tick)>>

\* Lines 83-92: the payload of the PUT.
Payload(data, sha, day) ==
    With(PyDict(<<K("message"), K("content")>>,
                <<PyStr(<<"Update visitor stats - ">> \o StrfTime(day)),
                  PyStr(B64Encode(JsonDumps(data)))>>),
         LAMBDA base : IF Truthy(sha) THEN Put(base, K("sha"), sha) ELSE base)

\* SaveResult that takes only 200 for a success.
SaveResultOnly200(status) == status = 200

\* Line 96.
SaveResult(status) == status \in {200, 201}

(***************************************************************************)
(* track_visit (main.py 113-144): the work between load and save.          *)
(***************************************************************************)
UserAgent(header) == IF header = NoHeader THEN "Unknown" ELSE header

\* Lines 124-128.
VisitRecord(day, tick, ip, header) ==
    PyDict(<<K("timestamp"), K("ip"), K("user_agent")>>,
           <<PyStr(IsoFormat(day, tick)), PyStr(K(ip)), PyStr(K(UserAgent(header)))>>)

\* client_ip in data["unique_visitors"]; defined when CanTest holds.
CanTest(uv) == uv.ty \in {"list", "str", "dict"}
Contains(uv, ip) ==
    CASE uv.ty = "list" -> InList(PyStr(K(ip)), uv)
      [] uv.ty = "str"  -> InStr(PyStr(K(ip)), uv)
      [] uv.ty = "dict" -> KeyIndex(uv, K(ip)) # 0

\* The outcome of a step on the document: raised is the KeyError, TypeError
\* or AttributeError that a value of the wrong shape ends in.
Raise(d) == [raised |-> TRUE, data |-> d]
Went(d) == [raised |-> FALSE, data |-> d]
\* step, and F on its document unless it raised.
Then(step, F(_)) == With(step, LAMBDA x : IF x.raised THEN x ELSE F(x.data))

\* Line 130: data["visits"].append(visit_record).
AppendVisit(d, visit) ==
    IF ~(HasKey(d, K("visits")) /\ IsList(Get(d, K("visits")))) THEN Raise(d)
    ELSE Went(Put(d, K("visits"),
                  PyList(Append(Get(d, K("visits")).elems, visit))))

\* CountVisit that counts the visit twice.
CountVisitTwice(d) ==
    IF ~(HasKey(d, K("total_visits")) /\ IsInt(Get(d, K("total_visits"))))
    THEN Raise(d)
    ELSE Went(Put(d, K("total_visits"), PyInt(Get(d, K("total_visits")).n + 2)))

\* Line 131: data["total_visits"] += 1.
CountVisit(d) ==
    IF ~(HasKey(d, K("total_visits")) /\ IsInt(Get(d, K("total_visits"))))
    THEN Raise(d)
    ELSE Went(Put(d, K("total_visits"), PyInt(Get(d, K("total_visits")).n + 1)))

\* NoteVisitor without the test of line 134: the address is always appended.
NoteVisitorNoTest(d, ip) ==
    IF ~(HasKey(d, K("unique_visitors")) /\ IsList(Get(d, K("unique_visitors"))))
    THEN Raise(d)
    ELSE Went(Put(d, K("unique_visitors"),
                  PyList(Append(Get(d, K("unique_visitors")).elems,
                                PyStr(K(ip))))))

\* Lines 134-135: the address joins unique_visitors unless it is in it.
NoteVisitor(d, ip) ==
    IF ~(HasKey(d, K("unique_visitors")) /\ CanTest(Get(d, K("unique_visitors"))))
    THEN Raise(d)
    ELSE IF Contains(Get(d, K("unique_visitors")), ip) THEN Went(d)
    ELSE IF ~IsList(Get(d, K("unique_visitors"))) THEN Raise(d)
    ELSE Went(Put(d, K("unique_visitors"),
                  PyList(Append(Get(d, K("unique_visitors")).elems,
                                PyStr(K(ip))))))

\* RecordVisit without line 131: the counter is not incremented.
RecordVisitNoCount(data, visit, ip) ==
    Then(AppendVisit(data, visit), LAMBDA d1 : NoteVisitor(d1, ip))

\* RecordVisit without line 130: the visit is not appended.
RecordVisitNoAppend(data, visit, ip) ==
    Then(CountVisit(data), LAMBDA d1 : NoteVisitor(d1, ip))

\* Lines 130-135.
RecordVisit(data, visit, ip) ==
    Then(AppendVisit(data, visit), LAMBDA d1 :
        Then(CountVisit(d1), LAMBDA d2 : NoteVisitor(d2, ip)))

\* Lines 140-144.
TrackResponse(data) ==
    [success |-> TRUE,
     total_visits |-> Get(data, K("total_visits")),
     unique_visitors |-> PyLen(Get(data, K("unique_visitors")))]

(***************************************************************************)
(* get_stats (main.py 146-167).                                            *)
(***************************************************************************)
RecentLimit == 10

\* seq[-n:]
LastN(seq, n) ==
    IF Len(seq) <= n THEN seq ELSE SubSeq(seq, Len(seq) - n + 1, Len(seq))

\* RecentVisits without the slice of line 156: every visit is returned.
RecentVisitsAll(v) ==
    IF ~Truthy(v) THEN PyList(<<>>) ELSE v

\* Line 156; defined when CanSlice holds (a dict or a non-zero int cannot be
\* sliced).
CanSlice(v) == ~Truthy(v) \/ v.ty \in {"list", "str"}
RecentVisits(v) ==
    IF ~Truthy(v) THEN PyList(<<>>)
    ELSE IF IsList(v) THEN PyList(LastN(v.elems, RecentLimit))
    ELSE PyStr(LastN(v.s, RecentLimit))

\* Line 160; the sum is defined when every v["timestamp"].startswith(today)
\* is: visits is a list of dicts that have a str timestamp, or is an empty
\* str or dict (nothing to iterate over).
CanCount(v) ==
    \/ /\ IsList(v)
       /\ \A i \in 1..Len(v.elems) :
              /\ HasKey(v.elems[i], K("timestamp"))
              /\ IsStr(Get(v.elems[i], K("timestamp")))
    \/ v.ty \in {"str", "dict"} /\ ~Truthy(v)

\* VisitsToday without the test of the date: every visit is counted.
VisitsTodayAll(v, day) ==
    IF ~IsList(v) THEN 0 ELSE Len(v.elems)

VisitsToday(v, day) ==
    IF ~IsList(v) THEN 0
    ELSE Cardinality({i \in 1..Len(v.elems) :
                         StartsWith(Get(v.elems[i], K("timestamp")),
                                    PyStr(K(DateName(day))))})

\* StatsResponse with unique_visitors taken from the visits (one per visit).
StatsResponseCountsVisits(data, day) ==
    IF ~(/\ HasKey(data, K("total_visits"))
         /\ HasKey(data, K("unique_visitors"))
         /\ HasKey(data, K("visits"))
         /\ CanSlice(Get(data, K("visits")))
         /\ CanCount(Get(data, K("visits"))))
    THEN [raised |-> TRUE, body |-> <<>>]
    ELSE [raised |-> FALSE,
          body |-> [total_visits |-> Get(data, K("total_visits")),
                    unique_visitors |-> PyLen(Get(data, K("visits"))),
                    visits_today |-> VisitsToday(Get(data, K("visits")), day),
                    recent_visits |-> RecentVisits(Get(data, K("visits")))]]

StatsResponse(data, day) ==
    IF ~(/\ HasKey(data, K("total_visits"))
         /\ HasKey(data, K("unique_visitors"))
         /\ HasLen(Get(data, K("unique_visitors")))
         /\ HasKey(data, K("visits"))
         /\ CanSlice(Get(data, K("visits")))
         /\ CanCount(Get(data, K("visits"))))
    THEN [raised |-> TRUE, body |-> <<>>]
    ELSE [raised |-> FALSE,
          body |-> [total_visits |-> Get(data, K("total_visits")),
                    unique_visitors |-> PyLen(Get(data, K("unique_visitors"))),
                    visits_today |-> VisitsToday(Get(data, K("visits")), day),
                    recent_visits |-> RecentVisits(Get(data, K("visits")))]]

(***************************************************************************)
(* State.                                                                  *)
(***************************************************************************)
VARIABLES
    token,      \* GITHUB_TOKEN is set (main.py 25); fixed at startup
    file,       \* the stored object, visitor_data.json in the repository
    day,        \* the local clock's date
    calls,      \* number of requests received so far
    proc,       \* the handler instances: position, locals, response
    initFile,   \* history: the stored object at startup
    workers,    \* how many requests the deployment serves at the same time
    fault,      \* history: some remote request was not answered by the store
    tracks,     \* history: number of visits appended (line 130) so far
    seen,       \* history: the addresses of the visits appended so far
    wire        \* observation: the latest exchange with the remote store

vars == <<token, file, day, calls, proc, initFile, fault, workers,
          tracks, seen, wire>>

\* The exchanges with the remote store are observed or not; an observed
\* exchange is the body of the request (None for a GET) and the response.
WireOff == [on |-> FALSE, request |-> PyNone, response |-> Raised]
WireOn == [on |-> TRUE, request |-> PyNone, response |-> Raised]
Observe(request, response) ==
    IF wire.on THEN [on |-> TRUE, request |-> request, response |-> response]
    ELSE wire

\* A free handler slot.  saved is save_to_github's return value, "-" before
\* it returns; status 0 is no response yet; gets and puts count the remote
\* requests the call has issued.  overtaken is history: whether the store
\* has accepted another call's PUT while this call was between its load and
\* its GET for the sha ("before-fetch"), between that GET and its own PUT
\* ("after-fetch"), or after its save returned True ("after-save").
Idle ==
    [pc |-> "idle", kind |-> "none", ip |-> "-", header |-> NoHeader,
     loaded |-> PyNone, data |-> PyNone, visit |-> PyNone, sha |-> PyNone,
     saved |-> "-", status |-> 0, body |-> <<>>, gets |-> 0, puts |-> 0,
     overtaken |-> "no"]

Free(p) == proc[p].pc \in {"idle", "done", "error"}
InFlight(p) == ~Free(p)

\* Instances are interchangeable: a request goes to the first free one.
SlotOrder == <<"p1", "p2">>
SlotIndex(p) == CHOOSE i \in 1..Len(SlotOrder) : SlotOrder[i] = p
FirstFree(p) ==
    /\ Free(p)
    /\ \A q \in Procs : SlotIndex(q) < SlotIndex(p) => ~Free(q)

(***************************************************************************)
(* Stored objects the service can find at startup.                         *)
(***************************************************************************)
DocKeys == <<K("total_visits"), K("unique_visitors"), K("visits")>>

\* One visit recorded earlier.
DocOne ==
    PyDict(DocKeys, <<PyInt(1), PyList(<<PyStr(K("a"))>>),
                      PyList(<<VisitRecord(0, 0, "a", "ua")>>)>>)

\* A hand-edited document: the counter and the visitor list disagree with
\* the visits.
DocSkewed ==
    PyDict(DocKeys, <<PyInt(2), PyList(<<PyStr(K("a")), PyStr(K("a"))>>),
                      PyList(<<VisitRecord(0, 0, "a", "ua")>>)>>)

InitFiles ==
    { NoFile,
      File(JsonDumps(DocOne)),
      File(JsonDumps(DocSkewed)),
      File(<<Tok("{")>>),                                       \* truncated
      File(JsonDumps(PyList(<<>>))),                            \* []
      File(JsonDumps(PyDict(<<K("total_visits")>>, <<PyInt(0)>>))) }

\* The document that n record calls from n different addresses, served one
\* after the other and each saved, leave in an empty store.
Visitor(n) == "v" \o ToString(n)
RECURSIVE DocAfter(_)
DocAfter(n) ==
    IF n = 0 THEN EmptyDoc
    ELSE RecordVisit(DocAfter(n - 1), VisitRecord(0, 0, Visitor(n), "ua"),
                     Visitor(n)).data

\* Stores with a history of that length.
LongFiles ==
    {NoFile} \cup {File(JsonDumps(DocAfter(n))) : n \in (MaxStored - 1)..MaxStored}

\* The service starts over one of `files`.
Startup(files) ==
    /\ token \in BOOLEAN
    /\ file \in files
    /\ initFile = file
    /\ day = 0
    /\ calls = 0
    /\ proc = [p \in Procs |-> Idle]
    /\ fault = FALSE
    /\ workers \in 1..Cardinality(Procs)
    /\ tracks = 0
    /\ seen = {}

Init == Startup(InitFiles) /\ wire = WireOff

(***************************************************************************)
(* Actions.                                                                *)
(***************************************************************************)
\* The local clock reaches the next day.
Tick ==
    /\ day < MaxDay
    /\ day' = day + 1
    /\ UNCHANGED <<token, file, calls, proc, initFile, fault, workers,
                   tracks, seen, wire>>

Begin(p, k, ip, header) ==
    /\ calls < (IF workers = 1 THEN MaxSerialCalls ELSE MaxCalls)
    /\ FirstFree(p)
    /\ Cardinality({q \in Procs : InFlight(q)}) < workers
    /\ calls' = calls + 1
    /\ proc' = [proc EXCEPT ![p] =
                   [Idle EXCEPT !.pc = "load", !.kind = k, !.ip = ip,
                                !.header = header]]
    /\ UNCHANGED <<token, file, day, initFile, workers, fault, tracks, seen,
                   wire>>

\* POST /api/track arrives (lines 113-118).
TrackStart(p) ==
    \E rq \in Requests : Begin(p, "track", rq.ip, rq.header)

\* GET /api/stats arrives (lines 146-147).
StatsStart(p) == Begin(p, "stats", "-", NoHeader)

\* The handler's return: the 200 response with `body`.
Respond(pr, body) ==
    [pr EXCEPT !.pc = "done", !.status = 200, !.body = body, !.overtaken = "no"]
\* An exception leaves the handler: FastAPI answers 500.
Fail(pr) == [pr EXCEPT !.pc = "error", !.status = 500, !.overtaken = "no"]

\* TrackAfterLoad without save's credential check (lines 68-69).
TrackAfterLoadNoCheck(pr, r) ==
    With(GetGithubFile(token, r), LAMBDA d :
    With(VisitRecord(day, tracks + 1, pr.ip, pr.header), LAMBDA visit :
    With(RecordVisit(d, visit, pr.ip), LAMBDA m :
    With([pr EXCEPT !.loaded = d, !.visit = visit, !.data = m.data,
                    !.gets = IF token THEN 1 ELSE 0], LAMBDA p1 :
        IF m.raised THEN Fail(p1) ELSE [p1 EXCEPT !.pc = "fetch"]))))

\* track_visit from line 121 to save_to_github's first remote request: the
\* load with the answer `r` to its GET, the visit, and save's early return
\* when no credential is set (lines 68-69).
TrackAfterLoad(pr, r) ==
    With(GetGithubFile(token, r), LAMBDA d :
    With(VisitRecord(day, tracks + 1, pr.ip, pr.header), LAMBDA visit :
    With(RecordVisit(d, visit, pr.ip), LAMBDA m :
    With([pr EXCEPT !.loaded = d, !.visit = visit, !.data = m.data,
                    !.gets = IF token THEN 1 ELSE 0], LAMBDA p1 :
        IF m.raised THEN Fail(p1)
        ELSE IF ~token
             THEN Respond([p1 EXCEPT !.saved = "False"], TrackResponse(m.data))
        ELSE [p1 EXCEPT !.pc = "fetch"]))))

\* Line 130 ran: the loaded value had a list under "visits".
Appended(d) == HasKey(d, K("visits")) /\ IsList(Get(d, K("visits")))

TrackLoad(p) ==
    /\ proc[p].pc = "load" /\ proc[p].kind = "track"
    /\ \E o \in (IF token THEN GetAnswers ELSE {"ok"}) :
       \E r \in {IF token THEN GetResponse(o, file) ELSE Raised} :
       \E nxt \in {TrackAfterLoad(proc[p], r)} :
          /\ proc' = [proc EXCEPT ![p] = nxt]
          /\ wire' = IF token THEN Observe(PyNone, r) ELSE wire
          /\ fault' = (fault \/ o # "ok")
          /\ tracks' = IF Appended(nxt.loaded) THEN tracks + 1 ELSE tracks
          /\ seen' = IF Appended(nxt.loaded) THEN seen \cup {nxt.ip} ELSE seen
    /\ UNCHANGED <<token, file, day, calls, initFile, workers>>

\* save_to_github lines 79-80: the GET for the sha is answered.
SaveAfterFetch(pr, r) ==
    With(FetchSha(r), LAMBDA f :
        IF f.raised
        THEN Respond([pr EXCEPT !.gets = pr.gets + 1, !.saved = "False"],
                     TrackResponse(pr.data))
        ELSE [pr EXCEPT !.gets = pr.gets + 1, !.pc = "put", !.sha = f.sha])

SaveFetch(p) ==
    /\ proc[p].pc = "fetch"
    /\ \E o \in GetAnswers :
       \E r \in {GetResponse(o, file)} :
          /\ proc' = [proc EXCEPT ![p] = SaveAfterFetch(proc[p], r)]
          /\ wire' = Observe(PyNone, r)
          /\ fault' = (fault \/ o # "ok")
    /\ UNCHANGED <<token, file, day, calls, initFile, workers, tracks,
                   seen>>

\* What a PUT can come to.  "ok": the store handles it and answers.  "fail":
\* a non-success status, nothing stored.  "exc": requests raises, nothing
\* stored.  "lost": the store handles it and the answer is lost (requests
\* raises).
PutAnswers == {"ok", "fail", "exc", "lost"}

\* SaveAfterPut with a response that reports the save's outcome.
SaveAfterPutReportsSave(pr, raised, status) ==
    Respond([pr EXCEPT !.puts = pr.puts + 1,
                       !.saved = IF ~raised /\ SaveResult(status)
                                 THEN "True" ELSE "False"],
            [TrackResponse(pr.data) EXCEPT
                 !.success = (~raised /\ SaveResult(status))])

\* save_to_github lines 96-99 and track_visit lines 140-144, given whether
\* the PUT raised and the status it was answered with.
SaveAfterPut(pr, raised, status) ==
    Respond([pr EXCEPT !.puts = pr.puts + 1,
                       !.saved = IF ~raised /\ SaveResult(status)
                                 THEN "True" ELSE "False"],
            TrackResponse(pr.data))

\* Another call's PUT has been accepted or not: what the call `pr` can be
\* told of it.
Overtake(pr, accepted) ==
    IF accepted /\ pr.pc = "fetch" THEN [pr EXCEPT !.overtaken = "before-fetch"]
    ELSE IF accepted /\ pr.pc = "put" THEN [pr EXCEPT !.overtaken = "after-fetch"]
    ELSE IF accepted /\ pr.pc = "done" /\ pr.saved = "True"
         THEN [pr EXCEPT !.overtaken = "after-save"]
    ELSE pr

\* Lines 83-95: the payload is built and the PUT reaches the store.  (The
\* commit message takes its time at this step.)
SavePut(p) ==
    /\ proc[p].pc = "put"
    /\ \E o \in PutAnswers :
       \E payload \in {Payload(proc[p].data, proc[p].sha, day)} :
       \E res \in {IF o \in {"ok", "lost"} THEN StorePut(file, payload)
                   ELSE [status |-> 500, file |-> file]} :
          /\ file' = res.file
          /\ proc' = [q \in Procs |->
                         IF q = p
                         THEN SaveAfterPut(proc[p], o \in {"exc", "lost"},
                                           res.status)
                         ELSE Overtake(proc[q], res.status \in {200, 201})]
          /\ wire' = Observe(payload, IF o \in {"exc", "lost"} THEN Raised
                                      ELSE Response(res.status, <<>>))
          /\ fault' = (fault \/ o # "ok")
    /\ UNCHANGED <<token, day, calls, initFile, workers, tracks, seen>>

\* get_stats, whole: the load with the answer `r` to its GET, the figures.
StatsAfterLoad(pr, r) ==
    With(GetGithubFile(token, r), LAMBDA d :
    With(StatsResponse(d, day), LAMBDA s :
    With([pr EXCEPT !.loaded = d, !.data = d,
                    !.gets = IF token THEN 1 ELSE 0], LAMBDA p1 :
        IF s.raised THEN Fail(p1) ELSE Respond(p1, s.body))))

\* StatsLoad with a write: the loaded document is stored back.
StatsLoadSaves(p) ==
    /\ proc[p].pc = "load" /\ proc[p].kind = "stats"
    /\ \E o \in (IF token THEN GetAnswers ELSE {"ok"}) :
       \E r \in {IF token THEN GetResponse(o, file) ELSE Raised} :
       \E nxt \in {StatsAfterLoad(proc[p], r)} :
          /\ proc' = [proc EXCEPT ![p] = nxt]
          /\ wire' = IF token THEN Observe(PyNone, r) ELSE wire
          /\ file' = IF token THEN File(JsonDumps(nxt.loaded)) ELSE file
          /\ fault' = (fault \/ o # "ok")
    /\ UNCHANGED <<token, day, calls, initFile, workers, tracks, seen>>

StatsLoad(p) ==
    /\ proc[p].pc = "load" /\ proc[p].kind = "stats"
    /\ \E o \in (IF token THEN GetAnswers ELSE {"ok"}) :
       \E r \in {IF token THEN GetResponse(o, file) ELSE Raised} :
          /\ proc' = [proc EXCEPT ![p] = StatsAfterLoad(proc[p], r)]
          /\ wire' = IF token THEN Observe(PyNone, r) ELSE wire
          /\ fault' = (fault \/ o # "ok")
    /\ UNCHANGED <<token, file, day, calls, initFile, workers, tracks,
                   seen>>

\* A remote request that is never answered: requests.get and requests.put
\* are called without a timeout (lines 46, 79, 95), so the call waits.
Hang(p) ==
    /\ token
    /\ proc[p].pc \in {"load", "fetch", "put"}
    /\ proc' = [proc EXCEPT ![p] =
                   [@ EXCEPT !.pc = "blocked",
                             !.gets = IF proc[p].pc = "put" THEN @ ELSE @ + 1,
                             !.puts = IF proc[p].pc = "put" THEN @ + 1 ELSE @]]
    /\ fault' = TRUE
    /\ UNCHANGED <<token, file, day, calls, initFile, workers, tracks,
                   seen, wire>>

Step(p) ==
    \/ TrackStart(p)
    \/ StatsStart(p)
    \/ TrackLoad(p)
    \/ SaveFetch(p)
    \/ SavePut(p)
    \/ StatsLoad(p)
    \/ Hang(p)

Next == Tick \/ \E p \in Procs : Step(p)

Spec == Init /\ [][Next]_vars

\* The handlers go on when their remote request is answered; that a request
\* is answered at all is up to the remote store (Hang).
Answer(p) == TrackLoad(p) \/ SaveFetch(p) \/ SavePut(p) \/ StatsLoad(p)

FairInit == Init /\ token = TRUE /\ file = NoFile /\ workers = 2
FairSpec == FairInit /\ [][Next]_vars /\ \A p \in Procs : WF_vars(Answer(p))

\* The service started over a store with a history, serving one request at
\* a time.
LongInit == Startup(LongFiles) /\ token = TRUE /\ workers = 1 /\ wire = WireOff
LongSpec == LongInit /\ [][Next]_vars

\* The service with a credential, its exchanges with the store observed.
WireFiles == {NoFile, File(JsonDumps(DocOne))}
WireInit == Startup(WireFiles) /\ token = TRUE /\ wire = WireOn
WireSpec == WireInit /\ [][Next]_vars

(***************************************************************************)
(* Vocabulary of the properties.                                           *)
(***************************************************************************)
IsPrefix(s, t) == Len(s) <= Len(t) /\ SubSeq(t, 1, Len(s)) = s

NoDuplicates(seq) ==
    \A i, j \in 1..Len(seq) : seq[i] = seq[j] => i = j

\* A VisitorDocument: total_visits, unique_visitors and visits, of the
\* right types.
IsDoc(v) ==
    /\ HasKey(v, K("total_visits")) /\ IsInt(Get(v, K("total_visits")))
    /\ HasKey(v, K("unique_visitors")) /\ IsList(Get(v, K("unique_visitors")))
    /\ HasKey(v, K("visits")) /\ IsList(Get(v, K("visits")))

Total(d) == Get(d, K("total_visits")).n
Unique(d) == Get(d, K("unique_visitors")).elems
Visits(d) == Get(d, K("visits")).elems

\* The value the text of a stored object parses to, None when there is no
\* object or its text is no JSON.
Parsed(f) ==
    IF ~f.exists THEN PyNone
    ELSE LET j == JsonLoads(f.bytes) IN IF j.ok THEN j.val ELSE PyNone

HoldsDoc(f) == IsDoc(Parsed(f))
StoredVisits(f) == IF HoldsDoc(f) THEN Visits(Parsed(f)) ELSE <<>>

Consistent(d) == Total(d) = Len(Visits(d))

Track(p) == proc[p].kind = "track"
Stats(p) == proc[p].kind = "stats"
Done(p) == proc[p].pc = "done"
\* The call has handed its document to save_to_github.
Saving(p) == Track(p) /\ proc[p].pc \in {"fetch", "put", "blocked", "done"}
                      /\ proc[p].data.ty # "none"

(***************************************************************************)
(* C1.  From empty storage, with a credential and every remote request     *)
(* answered by the store, after N record calls served one at a time a      *)
(* stats call reports total_visits = N and unique_visitors = the number of *)
(* distinct addresses among them.                                          *)
(***************************************************************************)
C1_Clean == token /\ workers = 1 /\ ~fault /\ ~initFile.exists

C1_SequentialCounts ==
    \A p \in Procs :
        (C1_Clean /\ Stats(p) /\ Done(p)) =>
            /\ proc[p].body.total_visits = PyInt(tracks)
            /\ proc[p].body.unique_visitors = Cardinality(seen)

\* Two record calls from the same address, then stats.
C1_Witness ==
    \E p \in Procs :
        /\ C1_Clean /\ Stats(p) /\ Done(p)
        /\ tracks = 2 /\ Cardinality(seen) = 1
        /\ proc[p].body.total_visits = PyInt(2)
        /\ proc[p].body.unique_visitors = 1

(***************************************************************************)
(* C2.  Served one at a time, record calls only ever extend the stored     *)
(* visits: whenever the stored object changes, the visits stored before    *)
(* are a prefix of the visits stored after, also when remote reads or      *)
(* writes fail.                                                            *)
(***************************************************************************)
C2_AppendOnly ==
    [][(workers = 1 /\ file' # file) =>
           IsPrefix(StoredVisits(file), StoredVisits(file'))]_vars

(***************************************************************************)
(* C3.  If the object stored at startup is absent or a document with       *)
(* total_visits = len(visits), then the stored document and every document *)
(* a record call passes to save have total_visits = len(visits), whatever  *)
(* the interleaving and the failures.                                      *)
(***************************************************************************)
C3_Premise == ~initFile.exists \/ (HoldsDoc(initFile) /\ Consistent(Parsed(initFile)))

C3_TotalMatchesVisits ==
    C3_Premise =>
        /\ file.exists => (HoldsDoc(file) /\ Consistent(Parsed(file)))
        /\ \A p \in Procs :
               Saving(p) => (IsDoc(proc[p].data) /\ Consistent(proc[p].data))

\* Two concurrent record calls, a failure behind them, one has replaced the
\* stored document and the other is about to write.
C3_Witness ==
    /\ C3_Premise /\ workers = 2 /\ fault /\ file # initFile
    /\ \E p, q \in Procs :
           /\ Saving(p) /\ Done(p)
           /\ Saving(q) /\ proc[q].pc = "put"
           /\ Total(proc[q].data) = 2

(***************************************************************************)
(* C4.  get_github_file always returns a well-formed document: whatever    *)
(* the remote read comes to, the value returned has total_visits,          *)
(* unique_visitors and visits.                                             *)
(***************************************************************************)
C4_LoadWellFormed ==
    \A p \in Procs : proc[p].loaded.ty # "none" => IsDoc(proc[p].loaded)

(***************************************************************************)
(* C5.  No track or stats call ends in an error response.                  *)
(***************************************************************************)
C5_NoErrorResponse ==
    \A p \in Procs : proc[p].pc # "error" /\ proc[p].status # 500

(***************************************************************************)
(* C6.  The response of a record call is success with the loaded           *)
(* total_visits plus one and the loaded number of unique visitors, plus    *)
(* one exactly when the caller's address was not among them, whether save  *)
(* returned True or False.                                                 *)
(***************************************************************************)
C6_Expected(p) ==
    [success |-> TRUE,
     total_visits |-> PyInt(Total(proc[p].loaded) + 1),
     unique_visitors |->
         Len(Unique(proc[p].loaded))
         + (IF InList(PyStr(K(proc[p].ip)), Get(proc[p].loaded, K("unique_visitors")))
            THEN 0 ELSE 1)]

C6_ResponseIgnoresSave ==
    \A p \in Procs :
        (Track(p) /\ Done(p)) =>
            /\ proc[p].saved \in {"True", "False"}
            /\ proc[p].status = 200
            /\ proc[p].body = C6_Expected(p)

\* Two record calls that loaded the same document from the same address:
\* the save of one returned True after its PUT, the save of the other False
\* after its PUT, and the responses are the same.
C6_Witness ==
    \E p, q \in Procs :
        /\ Track(p) /\ Done(p) /\ proc[p].saved = "True"
        /\ Track(q) /\ Done(q) /\ proc[q].saved = "False" /\ proc[q].puts = 1
        /\ proc[p].loaded = proc[q].loaded /\ proc[p].ip = proc[q].ip
        /\ proc[p].body = proc[q].body

(***************************************************************************)
(* C7.  Two concurrent record calls can lose an update.  When two record   *)
(* calls loaded the same document and the store accepted both saves, the   *)
(* stored document is the document of one of them alone: the loaded visits *)
(* and one more, total_visits one more than loaded, although both calls    *)
(* answered success.                                                       *)
(***************************************************************************)
C7_BothSaved(p, q) ==
    /\ p # q
    /\ Track(p) /\ Done(p) /\ proc[p].saved = "True"
    /\ Track(q) /\ Done(q) /\ proc[q].saved = "True"
    /\ proc[p].loaded = proc[q].loaded

C7_LostUpdate ==
    \A p, q \in Procs :
        C7_BothSaved(p, q) =>
            /\ proc[p].body.success /\ proc[q].body.success
            /\ HoldsDoc(file)
            /\ \E w \in {p, q} :
                   /\ Parsed(file) = proc[w].data
                   /\ StoredVisits(file)
                          = Append(Visits(proc[w].loaded), proc[w].visit)
            /\ Total(Parsed(file)) = Total(proc[p].loaded) + 1

\* From empty storage: both calls answered success, the stored document
\* holds the later writer's visit and not the earlier writer's, and
\* total_visits is 1 after 2 successes.
C7_Witness ==
    \E p, q \in Procs :
        /\ C7_BothSaved(p, q) /\ ~initFile.exists /\ ~fault
        /\ proc[p].visit # proc[q].visit
        /\ StoredVisits(file) = <<proc[q].visit>>
        /\ Total(Parsed(file)) = 1 /\ tracks = 2

(***************************************************************************)
(* C8.  With no credential no remote request is issued: the stored object  *)
(* stays as it was, every record call answers {success, 1, 1} and every    *)
(* stats call answers {0, 0, 0, []}.                                       *)
(***************************************************************************)
C8_NoCredential ==
    ~token =>
        /\ file = initFile
        /\ \A p \in Procs :
               /\ proc[p].gets = 0 /\ proc[p].puts = 0
               /\ proc[p].pc \in {"idle", "load", "done"}
               /\ (Track(p) /\ Done(p)) =>
                      /\ proc[p].loaded = EmptyDoc
                      /\ proc[p].saved = "False"
                      /\ proc[p].body = [success |-> TRUE,
                                         total_visits |-> PyInt(1),
                                         unique_visitors |-> 1]
               /\ (Stats(p) /\ Done(p)) =>
                      /\ proc[p].loaded = EmptyDoc
                      /\ proc[p].body = [total_visits |-> PyInt(0),
                                         unique_visitors |-> 0,
                                         visits_today |-> 0,
                                         recent_visits |-> PyList(<<>>)]

\* A stats call after two record calls, over a stored document.
C8_Witness ==
    /\ ~token /\ tracks = 2 /\ HoldsDoc(file)
    /\ \E p \in Procs : Stats(p) /\ Done(p)

(***************************************************************************)
(* C9.  Every call that begins completes with a response, also when the    *)
(* remote store never answers one of its requests.                         *)
(***************************************************************************)
C9_EveryCallCompletes ==
    \A p \in Procs : InFlight(p) ~> Free(p)

(***************************************************************************)
(* C10.  If the object stored at startup is absent or a document whose     *)
(* unique_visitors has no duplicates, the stored unique_visitors holds     *)
(* each address at most once, and only addresses that were there at        *)
(* startup or came with a recorded visit.                                  *)
(***************************************************************************)
C10_Premise ==
    ~initFile.exists \/ (HoldsDoc(initFile) /\ NoDuplicates(Unique(Parsed(initFile))))

C10_InitialAddrs ==
    IF HoldsDoc(initFile)
    THEN {Unique(Parsed(initFile))[i] : i \in 1..Len(Unique(Parsed(initFile)))}
    ELSE {}

C10_UniqueVisitors ==
    (C10_Premise /\ file.exists) =>
        /\ HoldsDoc(file)
        /\ NoDuplicates(Unique(Parsed(file)))
        /\ \A i \in 1..Len(Unique(Parsed(file))) :
               Unique(Parsed(file))[i]
                   \in C10_InitialAddrs \cup {PyStr(K(ip)) : ip \in seen}

\* Concurrent record calls from the same address and a failure: the stored
\* list holds the initial address and the new one, once each.
C10_Witness ==
    /\ C10_Premise /\ workers = 2 /\ fault /\ HoldsDoc(initFile)
    /\ tracks = 2 /\ seen = {"b"}
    /\ HoldsDoc(file) /\ Len(Unique(Parsed(file))) = 2

(***************************************************************************)
(* C11.  Over a store with a history of record calls, served one at a      *)
(* time: the recent_visits of a stats call are the last min(10,            *)
(* total_visits) of the visits it loaded, in their order, and when every   *)
(* remote request was answered by the store these are the stored visits.   *)
(* After 11 record calls from different addresses they are 10 and the      *)
(* first address is not among them.                                        *)
(***************************************************************************)
Min(a, b) == IF a <= b THEN a ELSE b

C11_IsSuffix(recent, visits, k) ==
    /\ Len(recent) = k
    /\ k <= Len(visits)
    /\ \A i \in 1..k : recent[i] = visits[Len(visits) - k + i]

C11_RecentVisits ==
    \A p \in Procs :
        (Stats(p) /\ Done(p)) =>
            /\ IsDoc(proc[p].loaded)
            /\ IsList(proc[p].body.recent_visits)
            /\ C11_IsSuffix(proc[p].body.recent_visits.elems,
                            Visits(proc[p].loaded),
                            Min(10, Total(proc[p].loaded)))
            /\ ~fault => Visits(proc[p].loaded) = StoredVisits(file)

\* Ten record calls before the start and an eleventh after it, all from
\* different addresses, then stats: ten visits, without the first address.
C11_Witness ==
    \E p \in Procs :
        /\ Stats(p) /\ Done(p) /\ ~fault
        /\ initFile = File(JsonDumps(DocAfter(10))) /\ tracks = 1
        /\ Len(StoredVisits(file)) = 11
        /\ Len(proc[p].body.recent_visits.elems) = 10
        /\ \A i \in 1..10 :
               Get(proc[p].body.recent_visits.elems[i], K("ip"))
                   # Get(StoredVisits(file)[1], K("ip"))
        /\ proc[p].body.recent_visits.elems[10] = StoredVisits(file)[11]

(***************************************************************************)
(* C12.  A stats call is read-only: no step of a stats call changes the    *)
(* stored object or its sha, a stats call issues no PUT, and it has issued *)
(* exactly one GET when it ends (none without a credential), also when it  *)
(* runs between the steps of record calls.                                 *)
(***************************************************************************)
C12_StatsStep(p) == proc'[p] # proc[p] /\ proc'[p].kind = "stats"

C12_StatsReadOnly ==
    [][\A p \in Procs :
           C12_StatsStep(p) =>
               /\ file' = file
               /\ file'.exists => Sha(file'.bytes) = Sha(file.bytes)
               /\ proc'[p].puts = 0
               /\ proc'[p].pc \in {"load", "done", "error", "blocked"}
               /\ proc'[p].pc = "load" => proc'[p].gets = 0
               /\ proc'[p].pc # "load" =>
                      proc'[p].gets = (IF token THEN 1 ELSE 0)]_vars

\* A stats call has ended while a record call is between its fetch of the
\* sha and its PUT; the stored object is the one found at startup.
C12_Witness ==
    \E p, q \in Procs :
        /\ Stats(p) /\ Done(p) /\ proc[p].gets = 1 /\ proc[p].puts = 0
        /\ Track(q) /\ proc[q].pc = "put"
        /\ file = initFile /\ HoldsDoc(file)
        /\ proc[p].loaded = Parsed(file)

(***************************************************************************)
(* C13.  The visits_today of a stats call is the number of the visits it   *)
(* loaded whose timestamp begins with the date of the call.  A visit       *)
(* recorded on an earlier date is not counted; a visit recorded on the     *)
(* date of the call is.                                                    *)
(***************************************************************************)
C13_OfDate(visit, d) ==
    IsPrefix(<<DateName(d)>>, Get(visit, K("timestamp")).s)

C13_StatsAnswers(p) ==
    proc[p].kind = "stats" /\ proc[p].pc = "load" /\ proc'[p].pc = "done"

C13_VisitsToday ==
    [][\A p \in Procs :
           C13_StatsAnswers(p) =>
               /\ IsDoc(proc'[p].loaded)
               /\ proc'[p].body.visits_today =
                      Cardinality({i \in 1..Len(Visits(proc'[p].loaded)) :
                                      C13_OfDate(Visits(proc'[p].loaded)[i], day)})
               /\ \A i \in 1..Len(Visits(proc'[p].loaded)) :
                      \A d \in 0..MaxDay :
                          Visits(proc'[p].loaded)[i] \in
                              {VisitRecord(d, k, rq.ip, rq.header) :
                                   k \in 0..MaxSerialCalls, rq \in Requests}
                          => (C13_OfDate(Visits(proc'[p].loaded)[i], day) <=> d = day)]_vars

\* On the second day a stats call loads a visit of the first day and a
\* visit recorded on the second: it answers 1.
C13_Witness ==
    \E p \in Procs :
        /\ Stats(p) /\ Done(p) /\ day = 1 /\ IsDoc(proc[p].loaded)
        /\ Visits(proc[p].loaded) =
               <<VisitRecord(0, 0, "a", "ua"), VisitRecord(1, 1, "b", NoHeader)>>
        /\ proc[p].body.visits_today = 1

(***************************************************************************)
(* C14.  With a credential, a save is one GET and then, unless the GET     *)
(* step raised, one PUT.  The PUT carries the sha exactly when the GET was *)
(* answered 200 with a non-empty sha, and then that sha.  The save returns *)
(* True exactly when the PUT was answered 200 or 201, and False otherwise, *)
(* exceptions included.                                                    *)
(***************************************************************************)
\* The GET step raised: requests raised, or the body of a 200 is not a JSON
\* object.
C14_FetchRaised(r) ==
    \/ r.raised
    \/ r.status = 200 /\ ~(JsonLoads(r.body).ok /\ IsDict(JsonLoads(r.body).val))

\* The response is a 200 with a non-empty sha.
C14_HasToken(r) ==
    /\ ~r.raised /\ r.status = 200
    /\ JsonLoads(r.body).ok /\ IsDict(JsonLoads(r.body).val)
    /\ HasKey(JsonLoads(r.body).val, K("sha"))
    /\ Truthy(Get(JsonLoads(r.body).val, K("sha")))

C14_FetchStep(p) == proc[p].pc = "fetch" /\ proc'[p].pc \in {"put", "done"}
C14_PutStep(p) == proc[p].pc = "put" /\ proc'[p].pc = "done"

C14_SaveSteps ==
    [][\A p \in Procs :
         /\ C14_FetchStep(p) =>
               /\ wire'.request = PyNone
               /\ proc[p].gets = 1 /\ proc'[p].gets = 2
               /\ proc[p].puts = 0 /\ proc'[p].puts = 0
               /\ IF C14_FetchRaised(wire'.response)
                  THEN proc'[p].pc = "done" /\ proc'[p].saved = "False"
                  ELSE /\ proc'[p].pc = "put" /\ proc'[p].saved = "-"
                       /\ Truthy(proc'[p].sha) <=> C14_HasToken(wire'.response)
                       /\ C14_HasToken(wire'.response) =>
                              proc'[p].sha
                                  = Get(JsonLoads(wire'.response.body).val, K("sha"))
         /\ C14_PutStep(p) =>
               /\ proc'[p].gets = 2 /\ proc'[p].puts = 1
               /\ IsDict(wire'.request)
               /\ HasKey(wire'.request, K("sha")) <=> Truthy(proc[p].sha)
               /\ HasKey(wire'.request, K("sha")) =>
                      Get(wire'.request, K("sha")) = proc[p].sha
               /\ Get(wire'.request, K("content"))
                      = PyStr(B64Encode(JsonDumps(proc[p].data)))
               /\ proc'[p].saved \in {"True", "False"}
               /\ proc'[p].saved = "True" <=>
                      (~wire'.response.raised
                       /\ wire'.response.status \in {200, 201})]_vars

\* A save over a stored document: its PUT carried the sha, was answered
\* 200, and the save returned True.
C14_Witness ==
    \E p \in Procs :
        /\ wire.on /\ Track(p) /\ Done(p)
        /\ proc[p].gets = 2 /\ proc[p].puts = 1 /\ proc[p].saved = "True"
        /\ IsDict(wire.request)
        /\ HasKey(wire.request, K("sha"))
        /\ Get(wire.request, K("sha")) = PyStr(Sha(initFile.bytes))
        /\ wire.response = Response(200, <<>>)
        /\ file = File(JsonDumps(proc[p].data))

(***************************************************************************)
(* C15.  The store accepts a PUT only with the sha of the object as it is  *)
(* (or without one when there is no object).  When it has accepted another *)
(* call's PUT between this call's GET for the sha and its PUT, this call's *)
(* PUT changes nothing, its save returns False and the call answers        *)
(* success.  When every remote request was answered by the store, an       *)
(* accepted PUT that drops stored visits comes from a call that was        *)
(* overtaken between its load and its GET for the sha.                     *)
(***************************************************************************)
C15_DropsVisits == ~IsPrefix(StoredVisits(file), StoredVisits(file'))

C16_Made ==
    {VisitRecord(d, k, rq.ip, rq.header) :
         d \in 0..day, k \in 1..tracks, rq \in {x \in Requests : x.ip \in seen}}

C16_NoDoubleCount ==
    ~initFile.exists =>
        /\ tracks <= calls
        /\ file.exists =>
               /\ HoldsDoc(file)
               /\ Total(Parsed(file)) <= tracks
               /\ Len(StoredVisits(file)) <= tracks
               /\ NoDuplicates(StoredVisits(file))
               /\ \A i \in 1..Len(StoredVisits(file)) :
                      StoredVisits(file)[i] \in C16_Made
        /\ \A p \in Procs :
               (Track(p) /\ Done(p)) =>
                   /\ IsInt(proc[p].body.total_visits)
                   /\ proc[p].body.total_visits.n >= 1
                   /\ proc[p].body.total_visits.n <= tracks

\* Two record calls and a failure among their requests: two visits are
\* stored, the counter is 2 and so is the second response.
C16_Witness ==
    /\ ~initFile.exists /\ workers = 2 /\ fault /\ tracks = 2
    /\ HoldsDoc(file) /\ Total(Parsed(file)) = 2
    /\ Len(StoredVisits(file)) = 2
    /\ \E p \in Procs :
           Track(p) /\ Done(p) /\ proc[p].body.total_visits = PyInt(2)

(***************************************************************************)
(* C17.  After a save of a document returned True, and as long as the      *)
(* store has accepted no other write, a load whose GET is answered by the  *)
(* store returns a document with the same total_visits, the same           *)
(* unique_visitors in the same order and the same visits in the same       *)
(* order.                                                                  *)
(***************************************************************************)
C17_Saved(q) ==
    /\ Track(q) /\ Done(q) /\ proc[q].saved = "True"
    /\ proc[q].overtaken # "after-save"

C17_SameDoc(d, e) ==
    /\ IsDict(d) /\ IsDict(e)
    /\ \A i \in 1..Len(DocKeys) :
           /\ HasKey(d, DocKeys[i]) /\ HasKey(e, DocKeys[i])
           /\ Get(d, DocKeys[i]) = Get(e, DocKeys[i])

C17_RoundTrip ==
    \A q \in Procs :
        C17_Saved(q) =>
            /\ C17_SameDoc(GetGithubFile(token, StoreGet(file)), proc[q].data)
            /\ \A p \in Procs \ {q} :
                   (proc[p].gets >= 1 /\ proc[p].loaded.ty # "none"
                    /\ proc[p].pc # "blocked" /\ ~fault
                    /\ HasKey(proc[p].loaded, K("visits"))
                    /\ IsList(Get(proc[p].loaded, K("visits")))
                    /\ InList(proc[q].visit, Get(proc[p].loaded, K("visits"))))
                   => C17_SameDoc(proc[p].loaded, proc[q].data)

\* A record call saved a document of two visits and two visitors; a stats
\* call that began before the save ended has loaded it since.
C17_Witness ==
    \E p, q \in Procs :
        /\ C17_Saved(q) /\ Len(Visits(proc[q].data)) = 2
        /\ Len(Unique(proc[q].data)) = 2
        /\ Stats(p) /\ Done(p) /\ proc[p].gets = 1
        /\ proc[p].loaded = proc[q].data

====
